---- MODULE Spec2Model ----
(***************************************************************************)
(* State machine of the GraphRAG research-assistant front end: the root    *)
(* container App, the FileUpload widget, the QuestionForm, the             *)
(* ResultsDisplay viewer and the StatsPanel.  The backend (POST /upload,   *)
(* POST /ask, GET /stats) is the environment: every request in flight      *)
(* settles with a success or a failure chosen nondeterministically.        *)
(*                                                                         *)
(* An async handler is one action per synchronous segment: the code up to  *)
(* its first await, then one action per way each awaited request settles   *)
(* (including the catch and finally blocks that run with it).              *)
(*                                                                         *)
(* Text on which the code works character by character (the question, a    *)
(* passage) is a sequence of one-character strings; labels built by        *)
(* template literals are strings.                                          *)
(***************************************************************************)
EXTENDS Integers, Sequences, FiniteSets, TLC

VARIABLES
  results,       \* App: useState(null), the last /ask response data
  loading,       \* App: useState(false)
  activeTab,     \* App: useState('answer')
  uploadStatus,  \* App: useState(null), {type, message, details}
  stats,         \* App: useState(null), the last /stats response data
  isDragging,    \* FileUpload: useState(false)
  isUploading,   \* FileUpload: useState(false)
  question,      \* QuestionForm: useState('')
  uploads,       \* the invocations of handleFileUpload and where each stands
  asks,          \* the invocations of handleSubmit that posted, and where each stands
  lastSucceeded, \* history: the invocation whose POST /upload returned 2xx last
  lastEvent      \* history: the handler that ran last, with its input

vars == << results, loading, activeTab, uploadStatus, stats, isDragging,
           isUploading, question, uploads, asks, lastSucceeded, lastEvent >>

----------------------------------------------------------------------------
(* Bounds of the model *)

\* invocations of handleFileUpload in one behaviour
MaxUploads == 2
\* invocations of handleSubmit that post in one behaviour
MaxAsks == 2
\* files carried by one drop event
MaxFiles == 2
\* length of a question typed into the textarea
MaxQLen == 2
\* passages in the vector_context of one answer
MaxPassages == 2
\* how far from the cut the lengths of the passages range
MaxOver == 2

----------------------------------------------------------------------------
(* JavaScript values *)

\* null, the initial value of results, uploadStatus and stats
Null == [null |-> TRUE]

\* the value of a property that is not there
Undefined == "undefined"

\* the truthiness of a string-valued expression (s || fallback, s ? a : b, s && x)
Truthy(s) == s # Undefined /\ s # ""

\* QuestionForm.exampleQuestions, character by character
exampleQuestions ==
  << <<"W","h","a","t"," ","i","s"," ","t","h","e"," ","m","a","i","n"," ","c","o","n","t","r","i","b","u","t","i","o","n"," ","o","f"," ","t","h","i","s"," ","p","a","p","e","r","?">>,
     <<"E","x","p","l","a","i","n"," ","t","h","e"," ","m","e","t","h","o","d","o","l","o","g","y"," ","u","s","e","d"," ","i","n"," ","t","h","i","s"," ","r","e","s","e","a","r","c","h">>,
     <<"W","h","a","t"," ","a","r","e"," ","t","h","e"," ","k","e","y"," ","f","i","n","d","i","n","g","s"," ","o","r"," ","r","e","s","u","l","t","s","?">>,
     <<"H","o","w"," ","d","o","e","s"," ","t","h","i","s"," ","a","p","p","r","o","a","c","h"," ","c","o","m","p","a","r","e"," ","t","o"," ","e","x","i","s","t","i","n","g"," ","m","e","t","h","o","d","s","?">>,
     <<"W","h","a","t"," ","d","a","t","a","s","e","t","s"," ","w","e","r","e"," ","u","s","e","d"," ","f","o","r"," ","e","v","a","l","u","a","t","i","o","n","?">>,
     <<"W","h","a","t"," ","a","r","e"," ","t","h","e"," ","l","i","m","i","t","a","t","i","o","n","s"," ","o","f"," ","t","h","i","s"," ","w","o","r","k","?">> >>

----------------------------------------------------------------------------
(* The backend's answers, as far as the front end reads them *)

FileTypes == {"application/pdf", "text/plain"}

\* The i-th file of an event; its name tells the files of one event apart.
FileAt(i, t) == [name |-> "f" \o ToString(i), type |-> t]

\* e.dataTransfer.files of a drop: up to MaxFiles files of any type
DropInputs ==
  UNION { { [i \in 1..n |-> FileAt(i, ts[i])] : ts \in [1..n -> FileTypes] }
          : n \in 0..MaxFiles }

\* e.target.files of the file input (no `multiple` attribute): at most one file
SelectInputs == { fs \in DropInputs : Len(fs) <= 1 }

\* response.data of a 2xx POST /upload: { title, chunks_processed, authors },
\* with authors an array, so that authors.join does not throw
UploadData(file) ==
  [title |-> file.name, chunks_processed |-> 3, authors |-> <<"Ada", "Bob">>]

\* error.response is absent when the request timed out or the network failed
NoResponse == [none |-> TRUE]

ErrorStatuses == {413, 500}

ErrorDetailTexts == {Undefined, "", "Only PDF files are supported"}

\* what axios.post rejects with: no response, or a non-2xx response whose
\* data may carry a detail field
UploadErrors ==
  { [response |-> NoResponse] } \cup
  { [response |-> [status |-> st, data |-> [detail |-> d]]] :
      st \in ErrorStatuses, d \in ErrorDetailTexts }

\* response.data of GET /stats, told apart by the invocation that asked for it
StatsData(u) == [request |-> u]

----------------------------------------------------------------------------
(* FileUpload *)

\* Array.prototype.join
RECURSIVE Join(_, _)
Join(xs, sep) ==
  IF Len(xs) = 0 THEN ""
  ELSE IF Len(xs) = 1 THEN xs[1]
  ELSE xs[1] \o sep \o Join(Tail(xs), sep)

LoadingStatus ==
  [type |-> "loading", message |-> "Uploading and processing PDF...",
   details |-> Undefined]

\* the bullet between the chunk count and the authors is written as a hyphen
SuccessStatus(data) ==
  [type |-> "success",
   message |-> "Processed: " \o data.title,
   details |-> ToString(data.chunks_processed) \o " chunks - "
                 \o Join(data.authors, ", ")]

\* error.response?.data?.detail
ErrorDetail(error) ==
  IF error.response = NoResponse THEN Undefined
  ELSE error.response.data.detail

\* ErrorStatus with the fixed message whatever the response says
ErrorStatus_FixedMessage(error) ==
  [type |-> "error",
   message |-> "Upload failed. Please try again.",
   details |-> IF error.response # NoResponse /\ error.response.status # 0
               THEN "Status: " \o ToString(error.response.status)
               ELSE ""]

ErrorStatus(error) ==
  [type |-> "error",
   message |-> IF Truthy(ErrorDetail(error)) THEN ErrorDetail(error)
               ELSE "Upload failed. Please try again.",
   details |-> IF error.response # NoResponse /\ error.response.status # 0
               THEN "Status: " \o ToString(error.response.status)
               ELSE ""]

UploadIds == 1..MaxUploads

\* the invocations of handleFileUpload are numbered in the order they start
NextUploadId == Cardinality({u \in UploadIds : uploads[u].pc # "idle"}) + 1

NoFile == [name |-> "", type |-> ""]

\* handleFileUpload up to its first await: the flags, then POST /upload is sent
handleFileUpload(file) ==
  /\ NextUploadId \in UploadIds
  /\ isUploading' = TRUE
  /\ uploadStatus' = LoadingStatus
  /\ uploads' = [uploads EXCEPT ![NextUploadId] = [pc |-> "post", file |-> file]]

\* DropAccepts looking for a PDF anywhere among the files
DropAccepts_AnyPdf(files) ==
  \E i \in DOMAIN files : files[i].type = "application/pdf"

\* files.length > 0 && files[0].type === 'application/pdf'
DropAccepts(files) == Len(files) > 0 /\ files[1].type = "application/pdf"

\* file && file.type === 'application/pdf'
SelectAccepts(files) == Len(files) > 0 /\ files[1].type = "application/pdf"

handleDragOver ==
  /\ isDragging' = TRUE
  /\ lastEvent' = [op |-> "handleDragOver"]
  /\ UNCHANGED lastSucceeded
  /\ UNCHANGED << results, loading, activeTab, uploadStatus, stats,
                  isUploading, question, uploads, asks >>

handleDragLeave ==
  /\ isDragging' = FALSE
  /\ lastEvent' = [op |-> "handleDragLeave"]
  /\ UNCHANGED lastSucceeded
  /\ UNCHANGED << results, loading, activeTab, uploadStatus, stats,
                  isUploading, question, uploads, asks >>

handleDrop(files) ==
  /\ isDragging' = FALSE
  /\ lastEvent' = [op |-> "handleDrop", files |-> files]
  /\ IF DropAccepts(files)
     THEN handleFileUpload(files[1])
     ELSE UNCHANGED << uploadStatus, isUploading, uploads >>
  /\ UNCHANGED lastSucceeded
  /\ UNCHANGED << results, loading, activeTab, stats, question, asks >>

\* the file input is disabled={isUploading}, and the click that opens the
\* picker is guarded by !isUploading
FileInputDisabled == isUploading

handleFileSelect(files) ==
  /\ ~FileInputDisabled
  /\ lastEvent' = [op |-> "handleFileSelect", files |-> files]
  /\ IF SelectAccepts(files)
     THEN handleFileUpload(files[1])
     ELSE UNCHANGED << uploadStatus, isUploading, uploads >>
  /\ UNCHANGED lastSucceeded
  /\ UNCHANGED << results, loading, activeTab, stats, isDragging, question, asks >>

\* UploadPostOk without the stats fetch
UploadPostOk_NoStatsFetch(u) ==
  /\ uploads[u].pc = "post"
  /\ uploadStatus' = SuccessStatus(UploadData(uploads[u].file))
  /\ isUploading' = FALSE
  /\ uploads' = [uploads EXCEPT ![u].pc = "done"]
  /\ lastSucceeded' = u
  /\ lastEvent' = [op |-> "UploadPostOk", upload |-> u]
  /\ UNCHANGED << results, loading, activeTab, stats, isDragging, question, asks >>

\* POST /upload of invocation u returned 2xx: the status, then GET /stats is sent
UploadPostOk(u) ==
  /\ uploads[u].pc = "post"
  /\ uploadStatus' = SuccessStatus(UploadData(uploads[u].file))
  /\ uploads' = [uploads EXCEPT ![u].pc = "stats"]
  /\ lastSucceeded' = u
  /\ lastEvent' = [op |-> "UploadPostOk", upload |-> u]
  /\ UNCHANGED << results, loading, activeTab, stats, isDragging, isUploading,
                  question, asks >>

\* UploadPostFail without the catch block's onUploadStatus
UploadPostFail_NoStatus(u, error) ==
  /\ uploads[u].pc = "post"
  /\ isUploading' = FALSE
  /\ uploads' = [uploads EXCEPT ![u].pc = "failed"]
  /\ lastEvent' = [op |-> "UploadPostFail", upload |-> u, error |-> error]
  /\ UNCHANGED lastSucceeded
  /\ UNCHANGED << results, loading, activeTab, uploadStatus, stats, isDragging,
                  question, asks >>

\* POST /upload of invocation u was rejected: the catch block, then finally
UploadPostFail(u, error) ==
  /\ uploads[u].pc = "post"
  /\ uploadStatus' = ErrorStatus(error)
  /\ isUploading' = FALSE
  /\ uploads' = [uploads EXCEPT ![u].pc = "failed"]
  /\ lastEvent' = [op |-> "UploadPostFail", upload |-> u, error |-> error]
  /\ UNCHANGED lastSucceeded
  /\ UNCHANGED << results, loading, activeTab, stats, isDragging, question, asks >>

\* GET /stats of invocation u returned: onStatsUpdate, then finally
StatsOk(u) ==
  /\ uploads[u].pc = "stats"
  /\ stats' = StatsData(u)
  /\ isUploading' = FALSE
  /\ uploads' = [uploads EXCEPT ![u].pc = "done"]
  /\ lastEvent' = [op |-> "StatsOk", upload |-> u]
  /\ UNCHANGED lastSucceeded
  /\ UNCHANGED << results, loading, activeTab, uploadStatus, isDragging,
                  question, asks >>

\* GET /stats of invocation u was rejected: the inner catch logs, then finally
StatsFail(u) ==
  /\ uploads[u].pc = "stats"
  /\ isUploading' = FALSE
  /\ uploads' = [uploads EXCEPT ![u].pc = "done"]
  /\ lastEvent' = [op |-> "StatsFail", upload |-> u]
  /\ UNCHANGED lastSucceeded
  /\ UNCHANGED << results, loading, activeTab, uploadStatus, stats, isDragging,
                  question, asks >>

----------------------------------------------------------------------------
(* QuestionForm *)

\* the characters String.prototype.trim removes, among those the model types
IsWhitespace(c) == c \in {" ", "\t", "\n"}

RECURSIVE TrimStart(_)
TrimStart(s) ==
  IF Len(s) > 0 /\ IsWhitespace(s[1]) THEN TrimStart(Tail(s)) ELSE s

RECURSIVE TrimEnd(_)
TrimEnd(s) ==
  IF Len(s) > 0 /\ IsWhitespace(s[Len(s)])
  THEN TrimEnd(SubSeq(s, 1, Len(s) - 1))
  ELSE s

\* Trim removing the leading whitespace alone
Trim_StartOnly(s) == TrimStart(s)

\* String.prototype.trim
Trim(s) == TrimEnd(TrimStart(s))

TypeChars == {" ", "a"}

\* e.target.value of the textarea's change event
TypedTexts == UNION { [1..n -> TypeChars] : n \in 0..MaxQLen }

\* uploadStatus?.type
StatusType == IF uploadStatus = Null THEN Undefined ELSE uploadStatus.type

\* textarea: disabled={!uploadStatus || uploadStatus.type === 'loading'}
TextareaDisabled == uploadStatus = Null \/ uploadStatus.type = "loading"

\* SubmitDisabled without the test of the upload status
SubmitDisabled_QuestionOnly == Trim(question) = << >>

\* submit button:
\* disabled={!question.trim() || !uploadStatus || uploadStatus.type !== 'success'}
SubmitDisabled ==
  \/ Trim(question) = << >>
  \/ uploadStatus = Null
  \/ uploadStatus.type # "success"

\* onChange={(e) => setQuestion(e.target.value)}
TypeQuestion(text) ==
  /\ ~TextareaDisabled
  /\ question' = text
  /\ lastEvent' = [op |-> "TypeQuestion"]
  /\ UNCHANGED lastSucceeded
  /\ UNCHANGED << results, loading, activeTab, uploadStatus, stats, isDragging,
                  isUploading, uploads, asks >>

\* the example buttons carry no disabled attribute
insertExampleQuestion(i) ==
  /\ question' = exampleQuestions[i]
  /\ lastEvent' = [op |-> "insertExampleQuestion"]
  /\ UNCHANGED lastSucceeded
  /\ UNCHANGED << results, loading, activeTab, uploadStatus, stats, isDragging,
                  isUploading, uploads, asks >>

AskIds == 1..MaxAsks

\* the invocations of handleSubmit that post are numbered in the order they post
NextAskId == Cardinality({a \in AskIds : asks[a] # "idle"}) + 1

\* handleSubmit up to its first await: the early return on a blank question,
\* else the loading flag, then POST /ask is sent with the trimmed question
handleSubmit ==
  /\ IF Trim(question) = << >>
     THEN /\ lastEvent' = [op |-> "handleSubmit", posted |-> FALSE,
                           body |-> Null]
          /\ UNCHANGED << loading, asks >>
     ELSE /\ NextAskId \in AskIds
          /\ loading' = TRUE
          /\ asks' = [asks EXCEPT ![NextAskId] = "post"]
          /\ lastEvent' = [op |-> "handleSubmit", posted |-> TRUE,
                           body |-> [question |-> Trim(question)]]
  /\ UNCHANGED lastSucceeded
  /\ UNCHANGED << results, activeTab, uploadStatus, stats, isDragging,
                  isUploading, question, uploads >>

\* the form is submitted through its submit button alone (a textarea does not
\* submit on Enter), so a disabled button blocks the submit event
SubmitForm ==
  /\ ~SubmitDisabled
  /\ handleSubmit

\* a passage of n characters
PassageText(n) == [i \in 1..n |-> IF i % 3 = 0 THEN " " ELSE "a"]

Passage(n) == [paper_id |-> "paper-01", text |-> PassageText(n), similarity |-> 1]

\* response.data of a 2xx POST /ask: { answer, vector_context, graph_context },
\* told apart by the invocation that asked for it
AskData(a, vc) ==
  [request |-> a, answer |-> "answer", vector_context |-> vc,
   graph_context |-> << [type |-> "paper"] >>]

\* POST /ask of invocation a returned 2xx: onResults, then finally
AskOk(a) ==
  /\ asks[a] = "post"
  /\ results' = AskData(a, << Passage(1) >>)
  /\ loading' = FALSE
  /\ asks' = [asks EXCEPT ![a] = "done"]
  /\ lastEvent' = [op |-> "AskOk", ask |-> a]
  /\ UNCHANGED lastSucceeded
  /\ UNCHANGED << activeTab, uploadStatus, stats, isDragging, isUploading,
                  question, uploads >>

\* POST /ask of invocation a was rejected: the alert, then finally
AskFail(a) ==
  /\ asks[a] = "post"
  /\ loading' = FALSE
  /\ asks' = [asks EXCEPT ![a] = "failed"]
  /\ lastEvent' = [op |-> "AskFail", ask |-> a]
  /\ UNCHANGED lastSucceeded
  /\ UNCHANGED << results, activeTab, uploadStatus, stats, isDragging,
                  isUploading, question, uploads >>

----------------------------------------------------------------------------
(* App and ResultsDisplay *)

\* {loading && <spinner/>}
SpinnerShown == loading

\* {results && !loading && <ResultsDisplay .../>}
ViewerShown == results # Null /\ ~loading

\* ResultsDisplay.tabs, by id
TabIds == {"answer", "vector", "graph"}

\* onClick={() => onTabChange(tab.id)}, with onTabChange={setActiveTab}
TabClick(tab) ==
  /\ ViewerShown
  /\ activeTab' = tab
  /\ lastEvent' = [op |-> "TabClick", tab |-> tab]
  /\ UNCHANGED lastSucceeded
  /\ UNCHANGED << results, loading, uploadStatus, stats, isDragging,
                  isUploading, question, uploads, asks >>

\* RenderedPanes with the passages shown on every tab but the first
RenderedPanes_VectorElsewhere ==
  (IF activeTab = "answer" THEN {"answer"} ELSE {}) \cup
  (IF activeTab # "answer" THEN {"vector"} ELSE {}) \cup
  (IF activeTab = "graph" THEN {"graph"} ELSE {})

\* the panes the viewer renders:
\* {activeTab === 'answer' && renderAnswer()} and so on
RenderedPanes ==
  (IF activeTab = "answer" THEN {"answer"} ELSE {}) \cup
  (IF activeTab = "vector" THEN {"vector"} ELSE {}) \cup
  (IF activeTab = "graph" THEN {"graph"} ELSE {})

\* the length beyond which renderVectorContext cuts a passage
TruncateAt == 400

\* RenderPassageText cutting from the length of the cut on
RenderPassageText_CutsAtLimit(text) ==
  IF Len(text) >= TruncateAt
  THEN SubSeq(text, 1, TruncateAt) \o << ".", ".", "." >>
  ELSE text

\* result.text.length > 400 ? result.text.slice(0, 400) + '...' : result.text
RenderPassageText(text) ==
  IF Len(text) > TruncateAt
  THEN SubSeq(text, 1, TruncateAt) \o << ".", ".", "." >>
  ELSE text

\* {result.text.length > 400 && <button>Show full text</button>}
ShowFullText(text) == Len(text) > TruncateAt

\* renderVectorContext: one card per passage
renderVectorContext ==
  [i \in DOMAIN results.vector_context |->
     [text |-> RenderPassageText(results.vector_context[i].text),
      showFull |-> ShowFullText(results.vector_context[i].text)]]

\* StatsPanel: {stats && <SYSTEM STATS/>}
StatsShown == stats # Null

----------------------------------------------------------------------------
(* The program *)

Init ==
  /\ results = Null
  /\ loading = FALSE
  /\ activeTab = "answer"
  /\ uploadStatus = Null
  /\ stats = Null
  /\ isDragging = FALSE
  /\ isUploading = FALSE
  /\ question = << >>
  /\ uploads = [u \in UploadIds |-> [pc |-> "idle", file |-> NoFile]]
  /\ asks = [a \in AskIds |-> "idle"]
  /\ lastSucceeded = 0
  /\ lastEvent = [op |-> "none"]

\* The events of the upload widget, with the inputs drawn from the given sets
UploadNext(drops, selects, errors) ==
  \/ handleDragOver
  \/ handleDragLeave
  \/ \E files \in drops : handleDrop(files)
  \/ \E files \in selects : handleFileSelect(files)
  \/ \E u \in UploadIds : UploadPostOk(u)
  \/ \E u \in UploadIds, error \in errors : UploadPostFail(u, error)
  \/ \E u \in UploadIds : StatsOk(u)
  \/ \E u \in UploadIds : StatsFail(u)

\* The events of the question form and of the results viewer
FormNext(texts, examples) ==
  \/ \E text \in texts : TypeQuestion(text)
  \/ \E i \in examples : insertExampleQuestion(i)
  \/ \E a \in AskIds : AskOk(a)
  \/ \E a \in AskIds : AskFail(a)
  \/ \E tab \in TabIds : TabClick(tab)

\* The whole program.  Both components run side by side, so the events of
\* each are drawn from a narrow set of inputs: a drop or selection of one
\* file, a rejection with and without a response, a blank and a non-blank
\* typed question, the first example button.
OneFileInputs == { fs \in DropInputs : Len(fs) = 1 }

SomeUploadErrors ==
  { [response |-> NoResponse],
    [response |-> [status |-> 500,
                   data |-> [detail |-> "Only PDF files are supported"]]] }

SomeTypedTexts == { << " " >>, << "a" >> }

Next ==
  \/ UploadNext(OneFileInputs, OneFileInputs, SomeUploadErrors)
  \/ FormNext(SomeTypedTexts, {1})
  \/ SubmitForm

Spec == Init /\ [][Next]_vars

\* The upload widget alone, with every input of the bounds
NextUpload == UploadNext(DropInputs, SelectInputs, UploadErrors)

SpecUpload == Init /\ [][NextUpload]_vars

\* The state after one PDF was picked, uploaded and its stats fetched
InitUploaded ==
  /\ results = Null
  /\ loading = FALSE
  /\ activeTab = "answer"
  /\ uploadStatus = SuccessStatus(UploadData(FileAt(1, "application/pdf")))
  /\ stats = StatsData(1)
  /\ isDragging = FALSE
  /\ isUploading = FALSE
  /\ question = << >>
  /\ uploads = [u \in UploadIds |->
                  IF u = 1
                  THEN [pc |-> "done", file |-> FileAt(1, "application/pdf")]
                  ELSE [pc |-> "idle", file |-> NoFile]]
  /\ asks = [a \in AskIds |-> "idle"]
  /\ lastSucceeded = 1
  /\ lastEvent = [op |-> "StatsOk", upload |-> 1]

\* The question form after an upload, with every typed question of the bounds
\* and every example button.  handleSubmit is invoked on any state of the
\* form, also on those where the submit button is disabled (after a
\* successful upload: the states with a blank question), as a caller of the
\* handler could.
NextForm ==
  \/ FormNext(TypedTexts, DOMAIN exampleQuestions)
  \/ handleSubmit

SpecForm == InitUploaded /\ [][NextForm]_vars

\* The lengths of the passages the viewer is given: the shortest, and those
\* around the cut
PassageLens ==
  { n \in 0..(TruncateAt + MaxOver) : n <= 1 \/ n >= TruncateAt - MaxOver }

\* vector_context of an answer: up to MaxPassages passages
VectorContexts ==
  UNION { { [i \in 1..n |-> Passage(ls[i])] : ls \in [1..n -> PassageLens] }
          : n \in 1..MaxPassages }

\* The state after one upload and one answered question
InitRender ==
  /\ results \in { AskData(1, vc) : vc \in VectorContexts }
  /\ loading = FALSE
  /\ activeTab = "answer"
  /\ uploadStatus = SuccessStatus(UploadData(FileAt(1, "application/pdf")))
  /\ stats = StatsData(1)
  /\ isDragging = FALSE
  /\ isUploading = FALSE
  /\ question = << "a" >>
  /\ uploads = [u \in UploadIds |->
                  IF u = 1
                  THEN [pc |-> "done", file |-> FileAt(1, "application/pdf")]
                  ELSE [pc |-> "idle", file |-> NoFile]]
  /\ asks = [a \in AskIds |-> IF a = 1 THEN "done" ELSE "idle"]
  /\ lastSucceeded = 1
  /\ lastEvent = [op |-> "AskOk", ask |-> 1]

\* The results viewer on an answer whose passages are long
NextRender == \E tab \in TabIds : TabClick(tab)

SpecRender == InitRender /\ [][NextRender]_vars

\* The upload widget, each POST /upload settling in the end: the request is
\* sent with timeout: 120000, so axios resolves or rejects it
FairSpecUpload ==
  /\ SpecUpload
  /\ \A u \in UploadIds :
       WF_vars(UploadPostOk(u) \/ \E error \in UploadErrors : UploadPostFail(u, error))

----------------------------------------------------------------------------
(* Claims *)

\* a POST /upload is outstanding; a GET /stats is outstanding
UploadOutstanding == \E u \in UploadIds : uploads[u].pc = "post"

StatsOutstanding == \E u \in UploadIds : uploads[u].pc = "stats"

\* the step issues a POST /ask
AskIssued == \E a \in AskIds : asks[a] = "idle" /\ asks'[a] = "post"

\* the invocations of handleFileUpload the step starts
UploadsStarted == { u \in UploadIds : uploads[u].pc = "idle" /\ uploads'[u].pc # "idle" }

\* the invocations whose GET /stats the step issues
StatsIssued == { u \in UploadIds : uploads[u].pc # "stats" /\ uploads'[u].pc = "stats" }

(* C1: while uploadStatus is null or its type is not 'success' the form    *)
(* cannot be submitted, and no step from such a state issues a POST /ask.  *)
C1_NoAskBeforeUploadSuccess ==
  /\ [](StatusType # "success" => ~ENABLED SubmitForm)
  /\ [][AskIssued => StatusType = "success"]_vars

\* a question is typed and an earlier one was posted, and the last upload failed
C1_Witness ==
  /\ StatusType = "error"
  /\ Trim(question) # << >>
  /\ \E a \in AskIds : asks[a] # "idle"

(* C2: an upload started sets the status to 'loading' as POST /upload is   *)
(* sent; the request settling sets it to 'success' on 2xx and to 'error'   *)
(* otherwise; with no POST /upload outstanding the status is not           *)
(* 'loading'; and a 'loading' status leads to 'success' or 'error'.        *)
C2_UploadStatusLifecycle ==
  /\ [][UploadsStarted # {} =>
          /\ uploadStatus' = LoadingStatus
          /\ \A u \in UploadsStarted : uploads'[u].pc = "post"]_vars
  /\ [][\A u \in UploadIds :
          uploads[u].pc = "post" /\ uploads'[u].pc # "post" =>
            /\ lastEvent'.op \in {"UploadPostOk", "UploadPostFail"}
            /\ lastEvent'.op = "UploadPostOk" => uploadStatus'.type = "success"
            /\ lastEvent'.op = "UploadPostFail" => uploadStatus'.type = "error"]_vars
  /\ [](~UploadOutstanding => StatusType # "loading")
  /\ (StatusType = "loading") ~> (StatusType \in {"success", "error"})

\* one upload went through, a later one was rejected, none is outstanding
C2_Witness ==
  /\ lastEvent.op = "UploadPostFail"
  /\ StatusType = "error"
  /\ ~UploadOutstanding
  /\ \E u \in UploadIds : uploads[u].pc = "done"

(* C3: GET /stats is issued once for each POST /upload that returns 2xx,   *)
(* in the step that sets the status to 'success', and at no other time; a  *)
(* rejected POST /upload issues none and leaves stats unchanged.           *)
C3_StatsRefreshOnSuccessOnly ==
  /\ [][lastEvent'.op = "UploadPostOk" =>
          /\ StatsIssued = {lastEvent'.upload}
          /\ uploads[lastEvent'.upload].pc = "post"
          /\ uploadStatus'.type = "success"]_vars
  /\ [][StatsIssued # {} => lastEvent'.op = "UploadPostOk"]_vars
  /\ [][lastEvent'.op = "UploadPostFail" =>
          /\ StatsIssued = {}
          /\ stats' = stats
          /\ uploads'[lastEvent'.upload].pc = "failed"]_vars
  /\ [][\A u \in UploadIds :
          uploads[u].pc \in {"failed", "done"} => uploads'[u].pc = uploads[u].pc]_vars

\* one upload was rejected, another went through and its stats are shown
C3_Witness ==
  \E u, v \in UploadIds :
    /\ uploads[u].pc = "failed"
    /\ uploads[v].pc = "done"
    /\ stats = StatsData(v)

(* C4: a drop or a selection starts an upload only when the first file of  *)
(* the event is a PDF, and then of that file alone; any other event (no    *)
(* file, a first file that is no PDF, also with a PDF after it) issues no  *)
(* POST /upload and leaves uploadStatus, stats and isUploading unchanged.  *)
C4_OnlyFirstPdfUploaded ==
  [][lastEvent'.op \in {"handleDrop", "handleFileSelect"} =>
       IF Len(lastEvent'.files) > 0 /\ lastEvent'.files[1].type = "application/pdf"
       THEN /\ Cardinality(UploadsStarted) = 1
            /\ \A u \in UploadsStarted :
                 uploads'[u] = [pc |-> "post", file |-> lastEvent'.files[1]]
       ELSE /\ UploadsStarted = {}
            /\ UNCHANGED << uploadStatus, stats, isUploading, uploads >>]_vars

\* a text file followed by a PDF was dropped while an upload was going on
C4_Witness ==
  /\ lastEvent.op = "handleDrop"
  /\ Len(lastEvent.files) = 2
  /\ lastEvent.files[1].type = "text/plain"
  /\ lastEvent.files[2].type = "application/pdf"
  /\ isUploading
  /\ Cardinality({u \in UploadIds : uploads[u].pc # "idle"}) = 1

(* C5: whenever stats are displayed and no upload or stats request is      *)
(* outstanding, they are the data of the GET /stats that followed the most *)
(* recent successful upload.                                               *)
C5_StatsOfLastUpload ==
  (StatsShown /\ ~UploadOutstanding /\ ~StatsOutstanding) =>
    stats = StatsData(lastSucceeded)

\* the rejection carries a response with a detail field
CarriesDetail(error) ==
  error.response # NoResponse /\ error.response.data.detail # Undefined

\* the details the claim states: 'Status: <code>' when there is a response
ClaimedDetails(error) ==
  IF error.response # NoResponse
  THEN "Status: " \o ToString(error.response.status)
  ELSE ""

(* C6, as stated: after a rejected POST /upload the status is of type      *)
(* 'error', its message the response's detail field when the response      *)
(* carries one and 'Upload failed. Please try again.' otherwise, its       *)
(* details 'Status: <code>' when there is a response and '' otherwise.     *)
C6_ErrorPropagated_AsStated ==
  lastEvent.op = "UploadPostFail" =>
    uploadStatus =
      [type |-> "error",
       message |-> IF CarriesDetail(lastEvent.error)
                   THEN lastEvent.error.response.data.detail
                   ELSE "Upload failed. Please try again.",
       details |-> ClaimedDetails(lastEvent.error)]

(* C6, amended: the message is the response's detail field when the        *)
(* response carries a non-empty one, and the fixed text otherwise (no      *)
(* response, no detail field, or an empty detail); the rest as stated.     *)
C6_ErrorPropagated ==
  lastEvent.op = "UploadPostFail" =>
    uploadStatus =
      [type |-> "error",
       message |-> IF CarriesDetail(lastEvent.error)
                      /\ lastEvent.error.response.data.detail # ""
                   THEN lastEvent.error.response.data.detail
                   ELSE "Upload failed. Please try again.",
       details |-> ClaimedDetails(lastEvent.error)]

\* a 413 with a detail was received and is shown
C6_Witness ==
  /\ lastEvent.op = "UploadPostFail"
  /\ CarriesDetail(lastEvent.error)
  /\ uploadStatus.message = "Only PDF files are supported"
  /\ uploadStatus.details = "Status: 413"

(* C7: on the passages tab every passage longer than 400 characters is     *)
(* rendered as its first 400 characters followed by '...', every other     *)
(* passage unchanged, and 'Show full text' is there exactly for the        *)
(* passages that were cut.                                                 *)
C7_LongPassagesTruncated ==
  (ViewerShown /\ "vector" \in RenderedPanes) =>
    \A i \in DOMAIN results.vector_context :
      LET t == results.vector_context[i].text
          r == renderVectorContext[i]
      IN  /\ Len(t) > 400 =>
               /\ Len(r.text) = 403
               /\ \A k \in 1..400 : r.text[k] = t[k]
               /\ \A k \in 401..403 : r.text[k] = "."
          /\ Len(t) <= 400 => r.text = t
          /\ r.showFull <=> Len(t) > 400

\* the passages tab shows a passage of 400 characters and one of 401
C7_Witness ==
  /\ ViewerShown
  /\ activeTab = "vector"
  /\ \E i, j \in DOMAIN results.vector_context :
       /\ Len(results.vector_context[i].text) = 400
       /\ Len(results.vector_context[j].text) = 401

(* C8: activeTab starts as 'answer' and is always one of 'answer',         *)
(* 'vector', 'graph'; a tab click sets it to the clicked tab's id; and     *)
(* whenever the viewer is shown it renders exactly the pane activeTab      *)
(* names.                                                                  *)
C8_ThreeViews ==
  /\ activeTab = "answer"
  /\ [](activeTab \in {"answer", "vector", "graph"})
  /\ [](ViewerShown => RenderedPanes = {activeTab})
  /\ [][lastEvent'.op = "TabClick" => activeTab' = lastEvent'.tab]_vars

\* the graph tab was clicked and is shown
C8_Witness ==
  /\ lastEvent.op = "TabClick"
  /\ ViewerShown
  /\ activeTab = "graph"

(* C9: while uploadStatus is null or its type is 'loading' or 'error', no  *)
(* step changes the question.                                              *)
C9_QuestionFixedBeforeSuccess ==
  [][(StatusType \in {Undefined, "loading", "error"}) => question' = question]_vars

\* every character of s is whitespace
Blank(s) == \A k \in DOMAIN s : s[k] \in {" ", "\t", "\n"}

\* b is s without its leading and trailing whitespace
Stripped(s, b) ==
  /\ Len(b) > 0
  /\ ~(b[1] \in {" ", "\t", "\n"})
  /\ ~(b[Len(b)] \in {" ", "\t", "\n"})
  /\ \E i \in 0..(Len(s) - Len(b)) :
       /\ SubSeq(s, i + 1, i + Len(b)) = b
       /\ Blank(SubSeq(s, 1, i))
       /\ Blank(SubSeq(s, i + Len(b) + 1, Len(s)))

(* C10: handleSubmit on an empty or whitespace-only question issues no     *)
(* POST /ask and leaves loading and results unchanged; on any other        *)
(* question it posts the question without its leading and trailing         *)
(* whitespace.                                                             *)
C10_BlankNeverPosted ==
  /\ [](lastEvent.op = "handleSubmit" =>
          /\ lastEvent.posted <=> ~Blank(question)
          /\ lastEvent.posted => Stripped(question, lastEvent.body.question))
  /\ [][lastEvent'.op = "handleSubmit" =>
          IF Blank(question)
          THEN ~AskIssued /\ UNCHANGED << loading, results, asks >>
          ELSE AskIssued]_vars

\* handleSubmit ran on a question of whitespace and posted nothing
C10_Witness ==
  /\ lastEvent.op = "handleSubmit"
  /\ ~lastEvent.posted
  /\ Len(question) > 0
  /\ \A a \in AskIds : asks[a] = "idle"

\* the invocations of handleFileUpload between their start and their finally
UploadsInProgress == { u \in UploadIds : uploads[u].pc \in {"post", "stats"} }

(* C11: at most one POST /upload is outstanding at any time, and           *)
(* isUploading is true exactly while an invocation of handleFileUpload is  *)
(* in progress (from its start to its finally block).                      *)
C11_OneUploadAtATime ==
  /\ Cardinality({ u \in UploadIds : uploads[u].pc = "post" }) <= 1
  /\ isUploading <=> UploadsInProgress # {}

\* a POST /ask is outstanding
AskOutstanding == \E a \in AskIds : asks[a] = "post"

(* C12: loading is true exactly in the states in which a POST /ask is      *)
(* outstanding, so the results viewer is never shown while a question is   *)
(* still being answered.                                                   *)
C12_LoadingWhileAsking ==
  /\ loading <=> AskOutstanding
  /\ ViewerShown => ~AskOutstanding

\* the invocation of handleSubmit that posted last (0 when none has)
LastAsk == Cardinality({ a \in AskIds : asks[a] # "idle" })

(* C13: once every POST /ask has settled, results holds the response to    *)
(* the question submitted last if that request succeeded.                  *)
C13_ResultsOfLastQuestion ==
  (~AskOutstanding /\ LastAsk > 0 /\ asks[LastAsk] = "done") =>
    (results # Null /\ results.request = LastAsk)

====
